---- MODULE Spec2Model ----
(***************************************************************************)
(* A model of the Messages component (src/components/messages.tsx):        *)
(*   - the retry handler handleRetry, an async function with two awaits,   *)
(*     modelled as one process per invocation, split at the awaits;        *)
(*   - the scroll coordinator: the auto-scroll effect, debouncedScroll,    *)
(*     the reasoning scroll effect, the initial scroll effect and the      *)
(*     unmount cleanup, over timers that carry their remaining delay.      *)
(*   - the values every render derives from messages, status and error     *)
(*     (the useMemo blocks and the shouldReduceHeight prop).               *)
(* Spec is the retry handler's specification, ScrollSpec the scroll        *)
(* coordinator's, ViewSpec the derived view state's.                       *)
(***************************************************************************)
EXTENDS Integers, Sequences, FiniteSets, TLC

\* ---------------------------------------------------------------- bounds
\* longest turn sequence the session holds
MaxLen == 2
\* number of handleRetry invocations in one behaviour
MaxRetries == 2
\* largest visible-turn count of the scroll coordinator's transcript
MaxCount == 2
\* triggers counted in one burst of the main scroller (the count saturates)
MaxBurst == 3
\* parts streamed into the assistant turns of one transcript
MaxParts == 3

\* ----------------------------------------------------- program constants
\* setTimeout delay of debouncedScroll while streaming
ScrollDebounceMs == 100
\* setTimeout delay of the reasoning scroll effect while streaming
ReasoningDebounceMs == 150

VARIABLES
  \* --- retry handler (Spec)
  messages,            \* props.messages: the session's turn sequence
  user,                \* props.user is present (caller authenticated)
  suggestedQuestions,  \* props.suggestedQuestions
  pc,                  \* pc[i]: where invocation i of handleRetry stands
  cap,                 \* cap[i]: the `messages` the closure of invocation i captured
  effects,             \* effects[i]: the calls invocation i has made, in order
  deletedId,           \* deletedId[i]: the id passed to deleteTrailingMessages
  installed,           \* installed[i]: the sequence passed to setMessages
  outcome,             \* outcome[i]: state of the promise handleRetry returned
  \* --- scroll coordinator (ScrollSpec)
  life,                \* "new" (not yet mounted), "mounted", "unmounted"
  count,               \* memoizedMessages.length
  status,              \* props.status
  anyActive,           \* `messages` holds a reasoning part the filter of lines 327-338 keeps
  initialNonEmpty,     \* initialMessages && initialMessages.length > 0
  hasInitialScrolled,  \* the one-shot flag (useState)
  scrollTimers,        \* pending timers of debouncedScroll, oldest first
  scrollTimeoutRef,    \* "null", "live" (the newest pending timer) or "stale" (fired or cleared)
  reasoningTimers,     \* pending timers of the reasoning scroll effect, oldest first
  reasoningScrollTimeoutRef,
  \* --- what the scroll coordinator has done (history)
  did,                 \* what the last step did to the main scroller
  rdid,                \* what the last step did to the reasoning scroller
  instantScrolls,      \* initial (instant) scrolls executed, saturating at 2
  sinceTrigger,        \* time since the auto-scroll effect last ran, saturating
  burst,               \* triggers in the current streaming burst, saturating
  burstRuns,           \* main-timer scrolls executed since the burst began
  burstLost,           \* a burst was replaced by the next before its scroll ran
  supersededRan,       \* a timer ran its scroll after a later trigger
  epoch,               \* flips whenever the auto-scroll effect runs
  lastStep,            \* the step taken last
  \* --- derived view state (ViewSpec)
  error,               \* props.error is set
  view                 \* the values the last render derived from messages, status, error

retryVars == <<messages, user, suggestedQuestions, pc, cap, effects, deletedId,
               installed, outcome>>

scrollVars == <<life, count, status, anyActive, initialNonEmpty, hasInitialScrolled,
                scrollTimers, scrollTimeoutRef, reasoningTimers,
                reasoningScrollTimeoutRef>>

histVars == <<did, rdid, instantScrolls, sinceTrigger, burst, burstRuns, burstLost,
              supersededRan, epoch, lastStep>>

viewVars == <<error, view>>

vars == <<retryVars, scrollVars, histVars, viewVars>>

\* ------------------------------------------------------------ data model
Roles == {"user", "assistant"}
\* "" is an absent (falsy) id
Ids == {"", "a", "b"}
Turn == [role : Roles, id : Ids]
Invocations == 1..MaxRetries

RECURSIVE SeqsUpTo(_, _)
SeqsUpTo(S, n) ==
  IF n = 0 THEN {<<>>}
  ELSE LET shorter == SeqsUpTo(S, n - 1)
       IN shorter \cup {Append(s, x) : s \in {t \in shorter : Len(t) = n - 1}, x \in S}

\* ----------------------------------------------------- pure helper code
\* messages.findLast((m) => m.role === 'user'), as an index; 0 when there is none
RECURSIVE FindLastFrom(_, _)
FindLastFrom(msgs, i) ==
  IF i = 0 THEN 0
  ELSE IF msgs[i].role = "user" THEN i
  ELSE FindLastFrom(msgs, i - 1)

FindLastUser(msgs) == FindLastFrom(msgs, Len(msgs))

\* the loop of Step 2: push messages[i], stop after the first one whose id
\* equals lastUserMessage.id
RECURSIVE TruncLoop(_, _, _, _)
TruncLoop(msgs, id, i, acc) ==
  IF i > Len(msgs) THEN acc
  ELSE IF msgs[i].id = id THEN Append(acc, msgs[i])
  ELSE TruncLoop(msgs, id, i + 1, Append(acc, msgs[i]))

NewMessages(msgs, id) == TruncLoop(msgs, id, 1, <<>>)

\* --------------------------------------------------------- retry handler
RetryInit ==
  /\ messages \in SeqsUpTo(Turn, MaxLen)
  /\ user \in BOOLEAN
  /\ suggestedQuestions \in {<<>>, <<"q">>}
  /\ pc = [i \in Invocations |-> "idle"]
  /\ cap = [i \in Invocations |-> <<>>]
  /\ effects = [i \in Invocations |-> <<>>]
  /\ deletedId = [i \in Invocations |-> ""]
  /\ installed = [i \in Invocations |-> <<>>]
  /\ outcome = [i \in Invocations |-> "none"]

\* Steps 2 to 4 up to the await of regenerate(), for the closure's `msgs`
Proceed(i, msgs, done) ==
  /\ messages' = NewMessages(msgs, msgs[FindLastUser(msgs)].id)
  /\ installed' = [installed EXCEPT ![i] = NewMessages(msgs, msgs[FindLastUser(msgs)].id)]
  /\ suggestedQuestions' = <<>>
  /\ effects' = [effects EXCEPT ![i] =
                   done \o <<"setMessages", "setSuggestedQuestions", "regenerate">>]
  /\ pc' = [pc EXCEPT ![i] = "regenerating"]

\* the catch block: log, and the async function returns normally
Caught(i, done) ==
  /\ effects' = [effects EXCEPT ![i] = done \o <<"console.error">>]
  /\ pc' = [pc EXCEPT ![i] = "done"]
  /\ outcome' = [outcome EXCEPT ![i] = "resolved"]

\* handleRetry from its first statement, `last` being what findLast found
RetryFrom(i, last) ==
  IF last = 0
  THEN \* if (!lastUserMessage) return;
       /\ pc' = [pc EXCEPT ![i] = "done"]
       /\ outcome' = [outcome EXCEPT ![i] = "resolved"]
       /\ UNCHANGED <<messages, suggestedQuestions, effects, deletedId, installed>>
  ELSE IF user /\ messages[last].id # ""
  THEN \* await deleteTrailingMessages({ id: lastUserMessage.id })
       /\ pc' = [pc EXCEPT ![i] = "deleting"]
       /\ outcome' = [outcome EXCEPT ![i] = "pending"]
       /\ effects' = [effects EXCEPT ![i] = <<"deleteTrailingMessages">>]
       /\ deletedId' = [deletedId EXCEPT ![i] = messages[last].id]
       /\ UNCHANGED <<messages, suggestedQuestions, installed>>
  ELSE /\ outcome' = [outcome EXCEPT ![i] = "pending"]
       /\ Proceed(i, messages, <<>>)
       /\ UNCHANGED deletedId

\* a missing await: deletion is requested and the handler goes on at once
handleRetryNoAwait(i) ==
  /\ pc[i] = "idle"
  /\ UNCHANGED <<scrollVars, histVars, viewVars>>
  /\ \A j \in Invocations : j < i => pc[j] # "idle"
  /\ cap' = [cap EXCEPT ![i] = messages]
  /\ LET last == FindLastUser(messages) IN
       IF last # 0 /\ user /\ messages[last].id # ""
       THEN /\ outcome' = [outcome EXCEPT ![i] = "pending"]
            /\ deletedId' = [deletedId EXCEPT ![i] = messages[last].id]
            /\ Proceed(i, messages, <<"deleteTrailingMessages">>)
       ELSE RetryFrom(i, last)
  /\ UNCHANGED user

\* a missing early return: reading lastUserMessage.id of undefined throws
handleRetryNoReturn(i) ==
  /\ pc[i] = "idle"
  /\ UNCHANGED <<scrollVars, histVars, viewVars>>
  /\ \A j \in Invocations : j < i => pc[j] # "idle"
  /\ cap' = [cap EXCEPT ![i] = messages]
  /\ LET last == FindLastUser(messages) IN
       IF last = 0
       THEN /\ Caught(i, <<>>)
            /\ UNCHANGED <<messages, suggestedQuestions, deletedId, installed>>
       ELSE RetryFrom(i, last)
  /\ UNCHANGED user

\* a handler that skips a call made while another retry is in flight
handleRetryDeduplicated(i) ==
  /\ pc[i] = "idle"
  /\ UNCHANGED <<scrollVars, histVars, viewVars>>
  /\ \A j \in Invocations : j < i => pc[j] # "idle"
  /\ cap' = [cap EXCEPT ![i] = messages]
  /\ IF \E j \in Invocations : pc[j] \in {"deleting", "regenerating"}
     THEN /\ pc' = [pc EXCEPT ![i] = "done"]
          /\ outcome' = [outcome EXCEPT ![i] = "resolved"]
          /\ UNCHANGED <<messages, suggestedQuestions, effects, deletedId, installed>>
     ELSE RetryFrom(i, FindLastUser(messages))
  /\ UNCHANGED user

\* handleRetry is called: the code up to its first await
handleRetry(i) ==
  /\ pc[i] = "idle"
  /\ UNCHANGED <<scrollVars, histVars, viewVars>>
  /\ \A j \in Invocations : j < i => pc[j] # "idle"
  /\ cap' = [cap EXCEPT ![i] = messages]
  /\ RetryFrom(i, FindLastUser(messages))
  /\ UNCHANGED user

\* a continuation that reads the session's current sequence, not the closure's
DeleteResolvedReadsCurrent(i) ==
  /\ pc[i] = "deleting"
  /\ UNCHANGED <<scrollVars, histVars, viewVars>>
  /\ IF FindLastUser(messages) = 0
     THEN /\ Caught(i, effects[i] \o <<"deleteResolved">>)
          /\ UNCHANGED <<messages, suggestedQuestions, installed, user, cap, deletedId>>
     ELSE /\ Proceed(i, messages, effects[i] \o <<"deleteResolved">>)
          /\ UNCHANGED <<user, cap, deletedId, outcome>>

\* the awaited deleteTrailingMessages resolves: Steps 2 to 4
DeleteResolved(i) ==
  /\ pc[i] = "deleting"
  /\ UNCHANGED <<scrollVars, histVars, viewVars>>
  /\ Proceed(i, cap[i], effects[i] \o <<"deleteResolved">>)
  /\ UNCHANGED <<user, cap, deletedId, outcome>>

\* a handler that swallows the rejection and goes on with Steps 2 to 4
DeleteRejectedProceeds(i) ==
  /\ pc[i] = "deleting"
  /\ UNCHANGED <<scrollVars, histVars, viewVars>>
  /\ Proceed(i, cap[i], effects[i] \o <<"deleteRejected", "console.error">>)
  /\ UNCHANGED <<user, cap, deletedId, outcome>>

\* the awaited deleteTrailingMessages rejects: control goes to the catch block
DeleteRejected(i) ==
  /\ pc[i] = "deleting"
  /\ UNCHANGED <<scrollVars, histVars, viewVars>>
  /\ Caught(i, effects[i] \o <<"deleteRejected">>)
  /\ UNCHANGED <<messages, user, suggestedQuestions, cap, deletedId, installed>>

\* the awaited regenerate() resolves: the handler returns
RegenerateResolved(i) ==
  /\ pc[i] = "regenerating"
  /\ UNCHANGED <<scrollVars, histVars, viewVars>>
  /\ pc' = [pc EXCEPT ![i] = "done"]
  /\ outcome' = [outcome EXCEPT ![i] = "resolved"]
  /\ effects' = [effects EXCEPT ![i] = @ \o <<"regenerateResolved">>]
  /\ UNCHANGED <<messages, user, suggestedQuestions, cap, deletedId, installed>>

\* a handler without the try/catch: the rejection leaves it
RegenerateRejectedUncaught(i) ==
  /\ pc[i] = "regenerating"
  /\ UNCHANGED <<scrollVars, histVars, viewVars>>
  /\ pc' = [pc EXCEPT ![i] = "done"]
  /\ outcome' = [outcome EXCEPT ![i] = "rejected"]
  /\ effects' = [effects EXCEPT ![i] = @ \o <<"regenerateRejected">>]
  /\ UNCHANGED <<messages, user, suggestedQuestions, cap, deletedId, installed>>

\* the awaited regenerate() rejects: control goes to the catch block
RegenerateRejected(i) ==
  /\ pc[i] = "regenerating"
  /\ UNCHANGED <<scrollVars, histVars, viewVars>>
  /\ Caught(i, effects[i] \o <<"regenerateRejected">>)
  /\ UNCHANGED <<messages, user, suggestedQuestions, cap, deletedId, installed>>

\* the turns the session appends while a retry is in flight
AppendedTurns == {[role |-> "assistant", id |-> "b"]}

\* the session appends a turn (the stream opens an assistant turn) while a
\* retry is awaiting; what it held before is drawn by RetryInit
SessionAppend(t) ==
  /\ Len(messages) < MaxLen
  /\ UNCHANGED <<scrollVars, histVars, viewVars>>
  /\ \E i \in Invocations : pc[i] \in {"deleting", "regenerating"}
  /\ messages' = Append(messages, t)
  /\ UNCHANGED <<user, suggestedQuestions, pc, cap, effects, deletedId, installed, outcome>>

\* the session supplies follow-up suggestions
SuggestionsArrive ==
  /\ suggestedQuestions = <<>>
  /\ UNCHANGED <<scrollVars, histVars, viewVars>>
  /\ \E i \in Invocations : pc[i] \in {"deleting", "regenerating"}
  /\ suggestedQuestions' = <<"q">>
  /\ UNCHANGED <<messages, user, pc, cap, effects, deletedId, installed, outcome>>

\* the turns a user sends while a retry is in flight
SentTurns == {[role |-> "user", id |-> "b"]}

\* the user sends a message while a retry awaits its deletion call: the session
\* appends the user turn
UserSends(t) ==
  /\ Len(messages) < MaxLen
  /\ UNCHANGED <<scrollVars, histVars, viewVars>>
  /\ \E i \in Invocations : pc[i] = "deleting"
  /\ messages' = Append(messages, t)
  /\ UNCHANGED <<user, suggestedQuestions, pc, cap, effects, deletedId, installed, outcome>>

RetryNext ==
  \/ \E i \in Invocations : handleRetry(i)
  \/ \E i \in Invocations : DeleteResolved(i)
  \/ \E i \in Invocations : DeleteRejected(i)
  \/ \E i \in Invocations : RegenerateResolved(i)
  \/ \E i \in Invocations : RegenerateRejected(i)
  \/ \E t \in AppendedTurns : SessionAppend(t)
  \/ SuggestionsArrive


\* -------------------------------------------------------- scroll coordinator
Statuses == {"ready", "submitted", "streaming", "error"}
\* how far time moves in one step
AdvanceSteps == {50}
\* what a render finds of initialMessages: the same array, or a new one
ImInputs == {"same", "empty", "nonEmpty"}

Min(a, b) == IF a < b THEN a ELSE b

\* reasoningScrollRef is created (line 65) and never attached to an element
reasoningScrollRefAttached == FALSE

\* messagesEndRef.current of a component in state `l` showing `cnt` turns: the
\* div of line 467 is rendered unless the early return of line 359 is taken
TargetAttached(l, cnt) == l = "mounted" /\ cnt > 0

\* clearTimeout(ref.current), guarded by if (ref.current)
ClearRef(timers, ref) ==
  IF ref = "live" THEN SubSeq(timers, 1, Len(timers) - 1) ELSE timers

\* status === 'streaming' ? 0 : 0
ScrollDelayNone(st) == 0

\* status === 'streaming' ? 100 : 0
ScrollDelay(st) == IF st = "streaming" THEN ScrollDebounceMs ELSE 0

\* status === 'streaming' ? 150 : 0
ReasoningDelay(st) == IF st = "streaming" THEN ReasoningDebounceMs ELSE 0

\* debouncedScroll without its clearTimeout
debouncedScrollNoClear(timers, ref, st) ==
  [timers |-> Append(timers, [left |-> ScrollDelay(st), superseded |-> FALSE]),
   ref |-> "live", did |-> "scheduled"]

\* debouncedScroll: clear the pending timer, set a new one
debouncedScroll(timers, ref, st) ==
  [timers |-> Append(ClearRef(timers, ref), [left |-> ScrollDelay(st), superseded |-> FALSE]),
   ref |-> "live", did |-> "scheduled"]

\* every pending timer has now been followed by a later trigger
Superseded(timers) ==
  [k \in 1..Len(timers) |-> [timers[k] EXCEPT !.superseded = TRUE]]

\* an auto-scroll effect whose immediate scroll is not gated by the flag
MainEffectUngated(timers, ref, st, cnt, his) ==
  IF cnt = 0
  THEN [timers |-> Superseded(timers), ref |-> ref, did |-> "nothing"]
  ELSE IF st \in {"streaming", "submitted"}
  THEN debouncedScroll(Superseded(timers), ref, st)
  ELSE [timers |-> Superseded(timers), ref |-> ref, did |-> "immediate"]

\* the auto-scroll effect (lines 304-314) of a mounted component, run with the
\* render's status, count and hasInitialScrolled
MainEffect(timers, ref, st, cnt, his) ==
  IF cnt = 0
  THEN \* messagesEndRef.current is null
       [timers |-> Superseded(timers), ref |-> ref, did |-> "nothing"]
  ELSE IF st \in {"streaming", "submitted"}
  THEN debouncedScroll(Superseded(timers), ref, st)
  ELSE IF his /\ cnt > 0
  THEN [timers |-> Superseded(timers), ref |-> ref, did |-> "immediate"]
  ELSE [timers |-> Superseded(timers), ref |-> ref, did |-> "nothing"]

\* an initial scroll effect that does not test hasInitialScrolled
InitialFiresUngated(ne, his, cnt) == ne /\ cnt > 0

\* the initial scroll effect (lines 70-76) scrolls and sets the flag
InitialFires(ne, his, cnt) == ne /\ ~his /\ cnt > 0

\* One render of the mounted component and the effects it runs, in the order
\* of their declaration: the initial scroll effect when initialMessages changed,
\* the auto-scroll effect when dep304, the reasoning effect when dep319; and,
\* when the initial scroll effect set hasInitialScrolled, the render that
\* follows, in which the auto-scroll effect runs again.
Render(cnt, st, act, im, dep304, dep319) ==
  LET ne     == IF im = "same" THEN initialNonEmpty ELSE im = "nonEmpty"
      fires  == im # "same" /\ InitialFires(ne, hasInitialScrolled, cnt)
      m0     == [timers |-> scrollTimers, ref |-> scrollTimeoutRef, did |-> "none"]
      m1     == IF dep304
                THEN MainEffect(m0.timers, m0.ref, st, cnt, hasInitialScrolled)
                ELSE m0
      m2     == IF fires THEN MainEffect(m1.timers, m1.ref, st, cnt, TRUE) ELSE m1
      ran304 == dep304 \/ fires
      inBurst == st = "streaming" /\ cnt > 0
      goesOn  == inBurst /\ burst > 0 /\ sinceTrigger < ScrollDebounceMs
  IN
  /\ count' = cnt
  /\ status' = st
  /\ anyActive' = act
  /\ initialNonEmpty' = ne
  /\ hasInitialScrolled' = (hasInitialScrolled \/ fires)
  /\ instantScrolls' = IF fires THEN Min(instantScrolls + 1, 2) ELSE instantScrolls
  /\ scrollTimers' = m2.timers
  /\ scrollTimeoutRef' = m2.ref
  /\ did' = m2.did
  /\ IF dep319
     THEN /\ reasoningTimers' = Append(ClearRef(reasoningTimers, reasoningScrollTimeoutRef),
                                       [left |-> ReasoningDelay(st), active |-> act])
          /\ reasoningScrollTimeoutRef' = "live"
          /\ rdid' = "scheduled"
     ELSE /\ UNCHANGED <<reasoningTimers, reasoningScrollTimeoutRef>>
          /\ rdid' = "none"
  /\ IF ran304
     THEN /\ sinceTrigger' = 0
          /\ epoch' = 1 - epoch
          /\ burst' = IF ~inBurst THEN 0
                      ELSE IF goesOn THEN Min(burst + 1, MaxBurst) ELSE 1
          /\ burstRuns' = IF goesOn THEN burstRuns ELSE 0
          /\ burstLost' = (burstLost \/ (inBurst /\ ~goesOn /\ burst > 0 /\ burstRuns = 0))
     ELSE UNCHANGED <<sinceTrigger, epoch, burst, burstRuns, burstLost>>
  /\ UNCHANGED supersededRan

ScrollInit ==
  /\ life = "new"
  /\ count \in 0..MaxCount
  /\ status \in Statuses
  /\ anyActive \in {a \in BOOLEAN : a => count > 0}
  /\ initialNonEmpty \in BOOLEAN
  /\ hasInitialScrolled = FALSE
  /\ scrollTimers = <<>>
  /\ scrollTimeoutRef = "null"
  /\ reasoningTimers = <<>>
  /\ reasoningScrollTimeoutRef = "null"
  /\ did = "none"
  /\ rdid = "none"
  /\ instantScrolls = 0
  /\ sinceTrigger = 0
  /\ burst = 0
  /\ burstRuns = 0
  /\ burstLost = FALSE
  /\ supersededRan = FALSE
  /\ epoch = 0
  /\ lastStep = "none"

\* the component mounts: every effect runs
Mount ==
  /\ life = "new"
  /\ life' = "mounted"
  /\ lastStep' = "Mount"
  /\ UNCHANGED <<retryVars, viewVars>>
  /\ Render(count, status, anyActive,
            IF initialNonEmpty THEN "nonEmpty" ELSE "empty", TRUE, TRUE)

\* props.messages changes and with it the visible-turn count
CountChange(cnt, act, im) ==
  /\ life = "mounted"
  /\ cnt # count
  /\ lastStep' = "CountChange"
  /\ UNCHANGED <<retryVars, viewVars>>
  /\ act => cnt > 0
  /\ Render(cnt, status, act, im, TRUE, TRUE)
  /\ UNCHANGED life

\* props.messages changes, the visible-turn count does not (a part is appended)
ContentChange(act, im) ==
  /\ life = "mounted"
  /\ count > 0
  /\ lastStep' = "ContentChange"
  /\ UNCHANGED <<retryVars, viewVars>>
  /\ Render(count, status, act, im, FALSE, TRUE)
  /\ UNCHANGED life

\* props.status changes
StatusChange(st, im) ==
  /\ life = "mounted"
  /\ st # status
  /\ lastStep' = "StatusChange"
  /\ UNCHANGED <<retryVars, viewVars>>
  /\ Render(count, st, anyActive, im, TRUE, TRUE)
  /\ UNCHANGED life

\* another compared prop changes (suggestedQuestions, error, ...)
OtherRender(im) ==
  /\ life = "mounted"
  /\ lastStep' = "OtherRender"
  /\ UNCHANGED <<retryVars, viewVars>>
  /\ Render(count, status, anyActive, im, FALSE, FALSE)
  /\ UNCHANGED life

\* a timer of debouncedScroll is due: its callback runs
MainTimerFire(k) ==
  /\ k \in 1..Len(scrollTimers)
  /\ scrollTimers[k].left = 0
  /\ lastStep' = "MainTimerFire"
  /\ UNCHANGED <<retryVars, viewVars>>
  /\ scrollTimers' = SubSeq(scrollTimers, 1, k - 1) \o SubSeq(scrollTimers, k + 1, Len(scrollTimers))
  /\ scrollTimeoutRef' = IF scrollTimeoutRef = "live" /\ k = Len(scrollTimers)
                         THEN "stale" ELSE scrollTimeoutRef
  /\ LET scrolls == TargetAttached(life, count) IN
       /\ did' = IF scrolls THEN "ran" ELSE "skipped"
       /\ supersededRan' = (supersededRan \/ (scrolls /\ scrollTimers[k].superseded))
       /\ burstRuns' = IF scrolls /\ burst > 0 THEN Min(burstRuns + 1, 2) ELSE burstRuns
  /\ rdid' = "none"
  /\ UNCHANGED <<life, count, status, anyActive, initialNonEmpty, hasInitialScrolled,
                 reasoningTimers, reasoningScrollTimeoutRef, instantScrolls, sinceTrigger,
                 burst, burstLost, epoch>>

\* a reasoning timer whose callback scrolls without testing activeReasoning
ReasoningTimerFireAlwaysScrolls(k) ==
  /\ k \in 1..Len(reasoningTimers)
  /\ reasoningTimers[k].left = 0
  /\ lastStep' = "ReasoningTimerFire"
  /\ UNCHANGED <<retryVars, viewVars>>
  /\ reasoningTimers' = SubSeq(reasoningTimers, 1, k - 1)
                          \o SubSeq(reasoningTimers, k + 1, Len(reasoningTimers))
  /\ reasoningScrollTimeoutRef' = IF reasoningScrollTimeoutRef = "live" /\ k = Len(reasoningTimers)
                                  THEN "stale" ELSE reasoningScrollTimeoutRef
  /\ rdid' = "ran"
  /\ did' = "none"
  /\ UNCHANGED <<life, count, status, anyActive, initialNonEmpty, hasInitialScrolled,
                 scrollTimers, scrollTimeoutRef, instantScrolls, sinceTrigger, burst,
                 burstRuns, burstLost, supersededRan, epoch>>

\* a timer of the reasoning scroll effect is due: its callback runs
ReasoningTimerFire(k) ==
  /\ k \in 1..Len(reasoningTimers)
  /\ reasoningTimers[k].left = 0
  /\ lastStep' = "ReasoningTimerFire"
  /\ UNCHANGED <<retryVars, viewVars>>
  /\ reasoningTimers' = SubSeq(reasoningTimers, 1, k - 1)
                          \o SubSeq(reasoningTimers, k + 1, Len(reasoningTimers))
  /\ reasoningScrollTimeoutRef' = IF reasoningScrollTimeoutRef = "live" /\ k = Len(reasoningTimers)
                                  THEN "stale" ELSE reasoningScrollTimeoutRef
  /\ rdid' = IF reasoningTimers[k].active /\ reasoningScrollRefAttached /\ life = "mounted"
             THEN "ran" ELSE "skipped"
  /\ did' = "none"
  /\ UNCHANGED <<life, count, status, anyActive, initialNonEmpty, hasInitialScrolled,
                 scrollTimers, scrollTimeoutRef, instantScrolls, sinceTrigger, burst,
                 burstRuns, burstLost, supersededRan, epoch>>

\* time passes, never beyond the deadline of a pending timer
Advance(d) ==
  /\ \A k \in 1..Len(scrollTimers) : scrollTimers[k].left >= d
  /\ \A k \in 1..Len(reasoningTimers) : reasoningTimers[k].left >= d
  /\ lastStep' = "Advance"
  /\ UNCHANGED <<retryVars, viewVars>>
  /\ scrollTimers' = [k \in 1..Len(scrollTimers) |->
                        [scrollTimers[k] EXCEPT !.left = @ - d]]
  /\ reasoningTimers' = [k \in 1..Len(reasoningTimers) |->
                           [reasoningTimers[k] EXCEPT !.left = @ - d]]
  /\ sinceTrigger' = Min(sinceTrigger + d, ScrollDebounceMs)
  /\ did' = "none"
  /\ rdid' = "none"
  /\ UNCHANGED <<life, count, status, anyActive, initialNonEmpty, hasInitialScrolled,
                 scrollTimeoutRef, reasoningScrollTimeoutRef, instantScrolls, burst,
                 burstRuns, burstLost, supersededRan, epoch>>

\* a cleanup that clears nothing
CleanupLeaks(timers, ref) == timers

\* the cleanup of lines 348-357, for one of the two refs
Cleanup(timers, ref) == ClearRef(timers, ref)

\* the component unmounts: the cleanup effect runs
Unmount ==
  /\ life = "mounted"
  /\ life' = "unmounted"
  /\ lastStep' = "Unmount"
  /\ UNCHANGED <<retryVars, viewVars>>
  /\ scrollTimers' = Cleanup(scrollTimers, scrollTimeoutRef)
  /\ reasoningTimers' = Cleanup(reasoningTimers, reasoningScrollTimeoutRef)
  /\ scrollTimeoutRef' = IF scrollTimeoutRef = "live" THEN "stale" ELSE scrollTimeoutRef
  /\ reasoningScrollTimeoutRef' = IF reasoningScrollTimeoutRef = "live" THEN "stale"
                                  ELSE reasoningScrollTimeoutRef
  /\ did' = "none"
  /\ rdid' = "none"
  /\ burst' = 0
  /\ UNCHANGED <<count, status, anyActive, initialNonEmpty, hasInitialScrolled,
                 instantScrolls, sinceTrigger, burstRuns, burstLost, supersededRan, epoch>>

\* no timer is at its deadline
NoTimerDue ==
  /\ \A k \in 1..Len(scrollTimers) : scrollTimers[k].left > 0
  /\ \A k \in 1..Len(reasoningTimers) : reasoningTimers[k].left > 0

\* the retry handler at rest, for the scroll coordinator's specifications
RetryIdle ==
  /\ messages = <<>>
  /\ user = FALSE
  /\ suggestedQuestions = <<>>
  /\ pc = [i \in Invocations |-> "idle"]
  /\ cap = [i \in Invocations |-> <<>>]
  /\ effects = [i \in Invocations |-> <<>>]
  /\ deletedId = [i \in Invocations |-> ""]
  /\ installed = [i \in Invocations |-> <<>>]
  /\ outcome = [i \in Invocations |-> "none"]

\* the scroll coordinator before the mount, for the retry handler's specification
ScrollIdle ==
  /\ ScrollInit
  /\ count = 0
  /\ status = "ready"
  /\ ~initialNonEmpty

\* --------------------------------------------------------- derived view state
\* A part's type is its tag split at the dashes: 'tool-web_search' is
\* <<"tool", "web_search">>. A text is its sequence of characters.
ReasoningPart == [type |-> <<"reasoning">>, text |-> <<>>]
VisibleTextPart == [type |-> <<"text">>, text |-> <<"h">>]
BlankTextPart == [type |-> <<"text">>, text |-> <<" ">>]
NamedToolPart == [type |-> <<"tool", "web_search">>, text |-> <<>>]
LegacyToolPart == [type |-> <<"tool", "invocation">>, text |-> <<>>]
PartKinds == {ReasoningPart, VisibleTextPart, BlankTextPart, NamedToolPart, LegacyToolPart}
\* the roles a turn of props.messages can carry
AllRoles == {"user", "assistant", "system"}

\* part.type.startsWith('tool-')
StartsWithTool(type) == Len(type) >= 2 /\ type[1] = "tool"

\* String.prototype.trim
RECURSIVE TrimStart(_)
TrimStart(t) == IF t # <<>> /\ Head(t) = " " THEN TrimStart(Tail(t)) ELSE t

RECURSIVE TrimEnd(_)
TrimEnd(t) ==
  IF t # <<>> /\ t[Len(t)] = " " THEN TrimEnd(SubSeq(t, 1, Len(t) - 1)) ELSE t

Trim(t) == TrimEnd(TrimStart(t))

\* parts.some((part) => part.type.startsWith('tool-'))
SomeToolPart(parts) == \E k \in 1..Len(parts) : StartsWithTool(parts[k].type)

\* parts.some((part) => part.type === 'text' && part.text && part.text.trim() !== '')
SomeVisibleText(parts) ==
  \E k \in 1..Len(parts) :
    parts[k].type = <<"text">> /\ parts[k].text # <<>> /\ Trim(parts[k].text) # <<>>

\* the filter of lines 80-92
RECURSIVE Filter(_, _)
Filter(msgs, i) ==
  IF i > Len(msgs) THEN <<>>
  ELSE IF msgs[i].role = "user" THEN <<msgs[i]>> \o Filter(msgs, i + 1)
  ELSE IF msgs[i].role = "assistant" THEN <<msgs[i]>> \o Filter(msgs, i + 1)
  ELSE Filter(msgs, i + 1)

\* a memoizedMessages that filters nothing
memoizedMessagesUnfiltered(msgs) == msgs

memoizedMessages(msgs) == Filter(msgs, 1)

\* memoizedMessages[memoizedMessages.length - 1]; undefined has no role
Undefined == [role |-> "undefined", parts |-> <<>>]
lastMessage(mm) == IF Len(mm) = 0 THEN Undefined ELSE mm[Len(mm)]

\* hasActiveToolInvocations without its status test
hasActiveToolInvocationsAnyStatus(mm, st) ==
  IF lastMessage(mm).role = "assistant"
  THEN SomeToolPart(lastMessage(mm).parts)
  ELSE FALSE

hasActiveToolInvocations(mm, st) ==
  IF st = "streaming" /\ lastMessage(mm).role = "assistant"
  THEN SomeToolPart(lastMessage(mm).parts)
  ELSE FALSE

\* isMissingAssistantResponse without its !error tests
isMissingAssistantResponseIgnoringError(mm, st, err) ==
  IF lastMessage(mm).role = "user" /\ st = "ready" THEN TRUE
  ELSE IF lastMessage(mm).role = "assistant" /\ st = "ready"
  THEN LET parts == lastMessage(mm).parts
           hasVisibleText == SomeVisibleText(parts)
           hasToolInvocations == SomeToolPart(parts)
           hasVisibleContent == hasVisibleText \/ hasToolInvocations
       IN ~hasVisibleContent
  ELSE FALSE

\* isMissingAssistantResponse without its status tests
isMissingAssistantResponseAnyStatus(mm, st, err) ==
  IF lastMessage(mm).role = "user" /\ ~err THEN TRUE
  ELSE IF lastMessage(mm).role = "assistant" /\ ~err
  THEN LET parts == lastMessage(mm).parts
           hasVisibleText == SomeVisibleText(parts)
           hasToolInvocations == SomeToolPart(parts)
           hasVisibleContent == hasVisibleText \/ hasToolInvocations
       IN ~hasVisibleContent
  ELSE FALSE

isMissingAssistantResponse(mm, st, err) ==
  IF lastMessage(mm).role = "user" /\ st = "ready" /\ ~err THEN TRUE
  ELSE IF lastMessage(mm).role = "assistant" /\ st = "ready" /\ ~err
  THEN LET parts == lastMessage(mm).parts
           hasVisibleText == SomeVisibleText(parts)
           hasToolInvocations == SomeToolPart(parts)
           hasVisibleContent == hasVisibleText \/ hasToolInvocations
       IN ~hasVisibleContent
  ELSE FALSE

\* shouldShowLoading with partsCount <= 2
shouldShowLoadingTwoParts(mm, st) ==
  IF st = "submitted" THEN TRUE
  ELSE IF st = "streaming"
  THEN IF lastMessage(mm).role = "user" THEN TRUE
       ELSE IF lastMessage(mm).role = "assistant"
       THEN Len(lastMessage(mm).parts) <= 2
       ELSE FALSE
  ELSE FALSE

shouldShowLoading(mm, st) ==
  IF st = "submitted" THEN TRUE
  ELSE IF st = "streaming"
  THEN IF lastMessage(mm).role = "user" THEN TRUE
       ELSE IF lastMessage(mm).role = "assistant"
       THEN Len(lastMessage(mm).parts) <= 1
       ELSE FALSE
  ELSE FALSE

\* the loop of lines 254-257, on 0-based indexes
RECURSIVE LastAssistantFrom(_, _)
LastAssistantFrom(mm, i) ==
  IF i < 0 THEN -1
  ELSE IF mm[i + 1].role = "assistant" THEN i
  ELSE LastAssistantFrom(mm, i - 1)

\* a loop that starts at index 0 and returns the first assistant turn
RECURSIVE FirstAssistantFrom(_, _)
FirstAssistantFrom(mm, i) ==
  IF i >= Len(mm) THEN -1
  ELSE IF mm[i + 1].role = "assistant" THEN i
  ELSE FirstAssistantFrom(mm, i + 1)

firstAssistantIndex(mm) == FirstAssistantFrom(mm, 0)

lastAssistantIndex(mm) == LastAssistantFrom(mm, Len(mm) - 1)

activeAssistantIndex(mm, st) ==
  IF st = "streaming" /\ lastMessage(mm).role = "assistant" THEN Len(mm) - 1 ELSE -1

isActiveAssistantSkeleton(mm, st) ==
  IF st = "streaming" /\ lastMessage(mm).role = "assistant"
  THEN Len(lastMessage(mm).parts) <= 1
  ELSE FALSE

\* shouldReserveLoaderMinHeight without the skeleton phase
shouldReserveLoaderMinHeightNoSkeleton(mm, st) ==
  IF st = "submitted" THEN TRUE
  ELSE IF st = "streaming" /\ lastMessage(mm).role = "user" THEN TRUE
  ELSE FALSE

shouldReserveLoaderMinHeight(mm, st) ==
  IF st = "submitted" THEN TRUE
  ELSE IF st = "streaming"
          /\ (lastMessage(mm).role = "user" \/ isActiveAssistantSkeleton(mm, st))
  THEN TRUE
  ELSE FALSE

\* the shouldReduceHeight prop with the skeleton test negated
shouldReduceHeightInverted(mm, st, index) ==
  IF mm[index + 1].role = "assistant"
  THEN IF st = "submitted" THEN TRUE
       ELSE IF st = "streaming"
       THEN IF activeAssistantIndex(mm, st) # -1
            THEN IF index = activeAssistantIndex(mm, st)
                 THEN ~isActiveAssistantSkeleton(mm, st)
                 ELSE TRUE
            ELSE TRUE
       ELSE index # lastAssistantIndex(mm)
  ELSE FALSE

\* the shouldReduceHeight prop of the turn at `index` (lines 411-423)
shouldReduceHeight(mm, st, index) ==
  IF mm[index + 1].role = "assistant"
  THEN IF st = "submitted" THEN TRUE
       ELSE IF st = "streaming"
       THEN IF activeAssistantIndex(mm, st) # -1
            THEN IF index = activeAssistantIndex(mm, st)
                 THEN isActiveAssistantSkeleton(mm, st)
                 ELSE TRUE
            ELSE TRUE
       ELSE index # lastAssistantIndex(mm)
  ELSE FALSE

\* the second filter of lines 331-337: no later part closes the reasoning part
ReasoningOpen(parts, partIndex) ==
  ~\E i \in 0..(Len(parts) - 1) :
     /\ i > partIndex
     /\ (parts[i + 1].type = <<"text">> \/ parts[i + 1].type = <<"tool", "invocation">>)

\* activeReasoning (lines 327-338) as its set of <<messageIndex, partIndex>>
activeReasoning(msgs) ==
  {mp \in UNION {{<<m, p>> : p \in 0..(Len(msgs[m + 1].parts) - 1)} : m \in 0..(Len(msgs) - 1)} :
     /\ msgs[mp[1] + 1].parts[mp[2] + 1].type = <<"reasoning">>
     /\ ReasoningOpen(msgs[mp[1] + 1].parts, mp[2])}

\* a component without the early return of lines 359-361
rendersNothingNever(mm) == FALSE

\* if (memoizedMessages.length === 0) return null
rendersNothing(mm) == Len(mm) = 0

\* the loading animation is in the rendered output (line 431)
loadingShown(mm, st) == ~rendersNothing(mm) /\ shouldShowLoading(mm, st)

\* what one render derives from its props
Derived(msgs, st, err) ==
  LET mm == memoizedMessages(msgs) IN
  [memoizedMessages |-> mm,
   hasActiveToolInvocations |-> hasActiveToolInvocations(mm, st),
   isMissingAssistantResponse |-> isMissingAssistantResponse(mm, st, err),
   shouldShowLoading |-> shouldShowLoading(mm, st),
   loadingShown |-> loadingShown(mm, st),
   lastAssistantIndex |-> lastAssistantIndex(mm),
   activeAssistantIndex |-> activeAssistantIndex(mm, st),
   isActiveAssistantSkeleton |-> isActiveAssistantSkeleton(mm, st),
   shouldReserveLoaderMinHeight |-> shouldReserveLoaderMinHeight(mm, st),
   shouldReduceHeight |-> [k \in 1..Len(mm) |-> shouldReduceHeight(mm, st, k - 1)],
   activeReasoning |-> activeReasoning(msgs)]

\* the derived view state at rest, for the other specifications
ViewIdle ==
  /\ error = FALSE
  /\ view = Derived(<<>>, "ready", FALSE)

\* parts held by the assistant turns of msgs
RECURSIVE PartsIn(_, _)
PartsIn(msgs, i) ==
  IF i > Len(msgs) THEN 0
  ELSE (IF msgs[i].role = "assistant" THEN Len(msgs[i].parts) ELSE 0) + PartsIn(msgs, i + 1)

\* a render with new props: every useMemo whose dependency changed recomputes
ViewRender(msgs, st, err) ==
  /\ messages' = msgs
  /\ status' = st
  /\ error' = err
  /\ view' = Derived(msgs, st, err)
  /\ UNCHANGED <<user, suggestedQuestions, pc, cap, effects, deletedId, installed, outcome>>
  /\ UNCHANGED <<life, count, anyActive, initialNonEmpty, hasInitialScrolled,
                 scrollTimers, scrollTimeoutRef, reasoningTimers, reasoningScrollTimeoutRef>>
  /\ UNCHANGED <<did, rdid, instantScrolls, sinceTrigger, burst, burstRuns, burstLost,
                 supersededRan, epoch, lastStep>>

ViewInit ==
  /\ RetryIdle
  /\ ScrollInit
  /\ count = 0
  /\ ~initialNonEmpty
  /\ error \in BOOLEAN
  /\ view = Derived(messages, status, error)

\* the session appends a turn: a user or system turn with its text, or an
\* assistant turn that has no part yet
TurnAppended(r) ==
  /\ Len(messages) < MaxLen
  /\ ViewRender(Append(messages,
                       [role |-> r,
                        parts |-> IF r = "assistant" THEN <<>> ELSE <<VisibleTextPart>>]),
                status, error)

\* the stream appends a part to the last turn, an assistant turn
PartAppended(p) ==
  /\ Len(messages) > 0
  /\ messages[Len(messages)].role = "assistant"
  /\ PartsIn(messages, 1) < MaxParts
  /\ ViewRender([messages EXCEPT ![Len(messages)].parts = Append(@, p)],
                status, error)

\* the session's status changes
StatusSet(st) ==
  /\ st # status
  /\ ViewRender(messages, st, error)

\* the session sets or clears its error
ErrorSet(err) ==
  /\ err # error
  /\ ViewRender(messages, status, err)

\* ------------------------------------------------- claims on handleRetry
Has(e, x) == \E k \in 1..Len(e) : e[k] = x
Count(e, x) == Cardinality({k \in 1..Len(e) : e[k] = x})
\* first position of x in e; Len(e) + 1 when absent
Index(e, x) == IF Has(e, x) THEN CHOOSE k \in 1..Len(e) : e[k] = x /\ \A j \in 1..(k - 1) : e[j] # x
               ELSE Len(e) + 1
\* greatest index of a user turn, 0 when there is none
LastUserIndex(msgs) ==
  IF \E k \in 1..Len(msgs) : msgs[k].role = "user"
  THEN CHOOSE k \in 1..Len(msgs) :
         msgs[k].role = "user" /\ \A j \in (k + 1)..Len(msgs) : msgs[j].role # "user"
  ELSE 0
\* the prefix that ends at and includes the last user turn
PrefixToLastUser(msgs) == SubSeq(msgs, 1, LastUserIndex(msgs))

\* C1 (as stated): when the deletion call of an authenticated retry rejects, the
\* retry still replaces the sequence by the prefix ending at the last user turn,
\* empties the suggested follow-ups and invokes regenerate exactly once.
C1_ProceedsAfterDeleteFailure ==
  \A i \in Invocations :
    (pc[i] = "done" /\ Has(effects[i], "deleteRejected")) =>
      /\ Has(effects[i], "setMessages")
      /\ installed[i] = PrefixToLastUser(cap[i])
      /\ Has(effects[i], "setSuggestedQuestions")
      /\ Count(effects[i], "regenerate") = 1

\* C1 (amended): when the deletion call of an authenticated retry rejects, the
\* retry stops there: the rejection is caught and logged, the invocation returns
\* normally, and it neither replaces the sequence, nor resets the suggested
\* follow-ups, nor invokes regenerate.
C1_StopsAfterDeleteFailure ==
  \A i \in Invocations :
    Has(effects[i], "deleteRejected") =>
      /\ effects[i] = <<"deleteTrailingMessages", "deleteRejected", "console.error">>
      /\ pc[i] = "done"
      /\ outcome[i] = "resolved"
      /\ user /\ deletedId[i] = cap[i][LastUserIndex(cap[i])].id /\ deletedId[i] # ""

C1_Witness ==
  \E i \in Invocations :
    /\ Has(effects[i], "deleteRejected")
    /\ cap[i] = <<[role |-> "user", id |-> "a"], [role |-> "assistant", id |-> "b"]>>
    /\ messages = cap[i]
    /\ suggestedQuestions = <<"q">>

\* C2: every retry that replaces the sequence installs exactly the prefix of the
\* invocation-time sequence that ends at and includes its LAST user turn, also
\* when turns lack an id or share one.
C2_InstallsPrefixToLastUser ==
  \A i \in Invocations :
    Has(effects[i], "setMessages") => installed[i] = PrefixToLastUser(cap[i])

\* C3: within one retry the effects come in the order: deletion (if requested)
\* completes, then the sequence is replaced, then the suggested follow-ups are
\* reset, then regenerate is invoked.
C3_EffectOrder ==
  \A i \in Invocations :
    LET e == effects[i] IN
      /\ (Has(e, "setMessages") \/ Has(e, "setSuggestedQuestions") \/ Has(e, "regenerate")) =>
            /\ Index(e, "setMessages") < Index(e, "setSuggestedQuestions")
            /\ Index(e, "setSuggestedQuestions") < Index(e, "regenerate")
            /\ Index(e, "regenerate") <= Len(e)
      /\ (Has(e, "deleteTrailingMessages") /\ Has(e, "setMessages")) =>
            /\ Index(e, "deleteTrailingMessages") < Index(e, "deleteResolved")
            /\ Index(e, "deleteResolved") < Index(e, "setMessages")
      /\ pc[i] = "deleting" => e = <<"deleteTrailingMessages">>

C3_Witness ==
  \E i \in Invocations :
    /\ pc[i] = "regenerating"
    /\ effects[i] = <<"deleteTrailingMessages", "deleteResolved", "setMessages",
                      "setSuggestedQuestions", "regenerate">>

\* C4: no failure escapes a retry (the promise it returned never rejects, and a
\* rejected deletion or regenerate ends the invocation normally, logged), and one
\* invocation requests deletion at most once and invokes regenerate at most once.
C4_NothingEscapes ==
  \A i \in Invocations :
    /\ outcome[i] # "rejected"
    /\ pc[i] = "done" => outcome[i] = "resolved"
    /\ (Has(effects[i], "deleteRejected") \/ Has(effects[i], "regenerateRejected")) =>
          (pc[i] = "done" /\ effects[i][Len(effects[i])] = "console.error")
    /\ Count(effects[i], "deleteTrailingMessages") <= 1
    /\ Count(effects[i], "regenerate") <= 1

C4_Witness ==
  \E i, j \in Invocations :
    /\ Has(effects[i], "deleteRejected") /\ outcome[i] = "resolved"
    /\ Has(effects[j], "regenerateRejected") /\ outcome[j] = "resolved"

\* C5: a retry invoked on a sequence with no user turn is a no-op: it requests no
\* deletion, leaves the sequence and the suggested follow-ups as they are, and
\* does not invoke regenerate.
C5_NoUserTurnNoOp ==
  [][\A i \in Invocations :
       (pc[i] = "idle" /\ pc'[i] # "idle"
          /\ \A k \in 1..Len(messages) : messages[k].role # "user") =>
         /\ messages' = messages
         /\ suggestedQuestions' = suggestedQuestions
         /\ effects'[i] = <<>>
         /\ pc'[i] = "done"
         /\ outcome'[i] = "resolved"]_vars

C5_Witness ==
  \E i \in Invocations :
    /\ pc[i] = "done"
    /\ cap[i] = <<[role |-> "assistant", id |-> "a"]>>
    /\ effects[i] = <<>>
    /\ messages = cap[i]
    /\ suggestedQuestions = <<"q">>

\* C6: a retry requests deletion iff the caller is authenticated and the last
\* user turn has an id, and then with that id; otherwise it requests none, but
\* still truncates to the last user turn and invokes regenerate exactly once.
C6_DeletionIffAuthenticatedWithId ==
  \A i \in Invocations :
    (pc[i] # "idle" /\ LastUserIndex(cap[i]) # 0) =>
      LET u == cap[i][LastUserIndex(cap[i])] IN
        /\ Has(effects[i], "deleteTrailingMessages") <=> (user /\ u.id # "")
        /\ Has(effects[i], "deleteTrailingMessages") => deletedId[i] = u.id
        /\ ~(user /\ u.id # "") =>
              /\ installed[i] = PrefixToLastUser(cap[i])
              /\ Count(effects[i], "regenerate") = 1

\* ---------------------------------------- claims on the scroll coordinator
Debouncing(st) == st \in {"streaming", "submitted"}
\* a main-scroller run scheduled by the latest trigger is pending
Armed == \E k \in 1..Len(scrollTimers) : ~scrollTimers[k].superseded

\* C7 (as stated): every trigger of the main scroller, in any status, cancels
\* the run pending from an earlier trigger, so no superseded run stays pending
\* and none ever executes.
C7_EveryTriggerCancels ==
  /\ \A k \in 1..Len(scrollTimers) : ~scrollTimers[k].superseded
  /\ ~supersededRan

\* C7 (amended): a trigger of the main scroller that arrives while status is
\* streaming or submitted and the transcript is non-empty cancels the pending
\* run and leaves exactly the run it schedules; a trigger in status ready or
\* errored (or with an empty transcript) cancels and schedules nothing, so a
\* run pending from before stays pending with its deadline.
C7_TriggerCancelsOnlyWhenDebouncing ==
  [][epoch' # epoch =>
       IF count' > 0 /\ Debouncing(status')
       THEN /\ Len(scrollTimers') = 1
            /\ scrollTimers'[1] = [left |-> ScrollDelay(status'), superseded |-> FALSE]
       ELSE /\ Len(scrollTimers') = Len(scrollTimers)
            /\ \A k \in 1..Len(scrollTimers) :
                 scrollTimers'[k] = [left |-> scrollTimers[k].left, superseded |-> TRUE]]_vars

\* a run scheduled while streaming has executed after the change to ready or
\* errored superseded it, and a later burst has cancelled its own earlier runs
C7_Witness ==
  /\ supersededRan
  /\ status = "streaming"
  /\ burst >= 2
  /\ Len(scrollTimers) = 1

C9_AlwaysScheduled ==
  (lastStep \in {"CountChange", "StatusChange"} /\ count > 0) =>
    \E k \in 1..Len(scrollTimers) :
      scrollTimers[k] = [left |-> ScrollDelay(status), superseded |-> FALSE]

C9_AfterTrigger ==
  (lastStep \in {"CountChange", "StatusChange"} /\ count > 0) =>
    IF Debouncing(status)
    THEN /\ did = "scheduled"
         /\ scrollTimers = <<[left |-> ScrollDelay(status), superseded |-> FALSE]>>
    ELSE /\ ~Armed
         /\ did = (IF hasInitialScrolled THEN "immediate" ELSE "nothing")

\* C9 (amended): after a change of the visible-turn count or of status in a
\* mounted view with a non-empty transcript, a main scroll is scheduled (delay
\* 100 if streaming, 0 if submitted) only when status is streaming or submitted,
\* and it eventually executes unless a later trigger or the teardown intervenes;
\* when status is ready or errored nothing is scheduled: the view scrolls at
\* once if the initial scroll of a persisted conversation has happened
\* (hasInitialScrolled), and does not scroll at all otherwise.
C9_ScheduledOnlyWhenDebouncing ==
  /\ []C9_AfterTrigger
  /\ \A b \in {0, 1} :
       (Armed /\ epoch = b) ~> (did = "ran" \/ epoch # b \/ life = "unmounted")

\* status has become ready in a view that was not populated from a persisted
\* conversation: nothing is scheduled and nothing scrolls
C9_Witness ==
  /\ lastStep = "StatusChange"
  /\ status = "ready"
  /\ count > 0
  /\ ~initialNonEmpty /\ ~hasInitialScrolled
  /\ did = "nothing"
  /\ scrollTimers = <<>>

\* C10: once the component is unmounted, no main-scroller or reasoning-scroller
\* timer is pending and no scroll of either scroller is scheduled or executes.
C10_TeardownCancelsTimers ==
  life = "unmounted" =>
    /\ scrollTimers = <<>>
    /\ reasoningTimers = <<>>
    /\ did \in {"none", "skipped"}
    /\ rdid \in {"none", "skipped"}

\* unmounted at the instant of a streaming trigger: both timers were pending
C10_Witness ==
  /\ life = "unmounted"
  /\ lastStep = "Unmount"
  /\ status = "streaming"
  /\ count > 0
  /\ sinceTrigger = 0
  /\ scrollTimeoutRef = "stale"
  /\ reasoningScrollTimeoutRef = "stale"

ReasoningActiveByPrefix(parts, i) ==
  /\ parts[i + 1].type = <<"reasoning">>
  /\ ~\E j \in (i + 1)..(Len(parts) - 1) :
        parts[j + 1].type = <<"text">> \/ StartsWithTool(parts[j + 1].type)

\* C12 (as stated): for every turn and part index i, the activity test of the
\* reasoning scroller is true iff part i is tagged reasoning and no later part of
\* the turn is tagged text or is a tool invocation (a tag beginning with 'tool-').
C12_ActiveIffNoLaterTextOrTool ==
  \A m \in 0..(Len(messages) - 1) :
    \A i \in 0..(Len(messages[m + 1].parts) - 1) :
      (<<m, i>> \in view.activeReasoning) <=> ReasoningActiveByPrefix(messages[m + 1].parts, i)

\* the turns of msgs a reader sees: those of a user or an assistant
Visible(msgs) == SelectSeq(msgs, LAMBDA m : m.role \in Roles)
\* the last visible turn carries role r
LastVisibleIs(r) ==
  Len(Visible(messages)) > 0 /\ Visible(messages)[Len(Visible(messages))].role = r
\* the parts of the last visible turn
LastVisibleParts == Visible(messages)[Len(Visible(messages))].parts
\* some part of `parts` is a text part with a character that is not a blank
HasNonBlankText(parts) ==
  \E k \in 1..Len(parts) :
    parts[k].type = <<"text">> /\ \E c \in 1..Len(parts[k].text) : parts[k].text[c] # " "
\* some part of `parts` carries a tag that begins with 'tool-'
HasToolPart(parts) == \E k \in 1..Len(parts) : StartsWithTool(parts[k].type)

\* C13: isMissingAssistantResponse is true iff status is ready, no error is set
\* and the last visible turn is a user turn or an assistant turn with neither a
\* non-blank text part nor a tool-invocation part.
C13_MissingResponseIff ==
  view.isMissingAssistantResponse <=>
    /\ status = "ready"
    /\ ~error
    /\ \/ LastVisibleIs("user")
       \/ /\ LastVisibleIs("assistant")
          /\ ~HasNonBlankText(LastVisibleParts)
          /\ ~HasToolPart(LastVisibleParts)

\* a ready, error-free session whose last assistant turn holds only reasoning
\* and a blank text: the response is missing
C13_Witness ==
  /\ status = "ready"
  /\ ~error
  /\ LastVisibleIs("assistant")
  /\ Len(LastVisibleParts) = 2
  /\ \E k \in 1..2 : LastVisibleParts[k] = BlankTextPart
  /\ view.isMissingAssistantResponse

\* the step appends a part to the last turn while status stays streaming
StreamsPart ==
  /\ status = "streaming"
  /\ status' = "streaming"
  /\ Len(messages) > 0
  /\ Len(messages') = Len(messages)
  /\ messages[Len(messages)].role = "assistant"
  /\ Len(messages'[Len(messages)].parts) = Len(messages[Len(messages)].parts) + 1

\* C14: shouldShowLoading is true iff status is submitted, or status is streaming
\* and the last visible turn is a user turn or an assistant turn with at most one
\* part; while status stays streaming, the second part appended to the last
\* assistant turn turns it from true to false and further parts leave it false.
C14_LoadingIff ==
  /\ [](view.shouldShowLoading <=>
          \/ status = "submitted"
          \/ /\ status = "streaming"
             /\ \/ LastVisibleIs("user")
                \/ LastVisibleIs("assistant") /\ Len(LastVisibleParts) <= 1)
  /\ [][StreamsPart =>
          /\ Len(messages[Len(messages)].parts) = 1
               => view.shouldShowLoading /\ ~view'.shouldShowLoading
          /\ Len(messages[Len(messages)].parts) >= 2
               => ~view.shouldShowLoading /\ ~view'.shouldShowLoading]_vars

\* a streaming assistant turn that received its third part: no indicator
C14_Witness ==
  /\ status = "streaming"
  /\ LastVisibleIs("assistant")
  /\ Len(LastVisibleParts) = 3
  /\ ~view.shouldShowLoading

\* C15 (as stated): for the empty turn sequence, in every status,
\* lastAssistantIndex and activeAssistantIndex are none and shouldShowLoading is
\* false.
C15_EmptyLoadingPredicateFalse ==
  Visible(messages) = <<>> =>
    /\ view.lastAssistantIndex = -1
    /\ view.activeAssistantIndex = -1
    /\ ~view.shouldShowLoading

\* C15 (corrected): for the empty turn sequence lastAssistantIndex and
\* activeAssistantIndex are none and no loading indicator is rendered, in every
\* status; the predicate shouldShowLoading itself is true exactly when status is
\* submitted.
C15_EmptyShowsNothing ==
  Visible(messages) = <<>> =>
    /\ view.lastAssistantIndex = -1
    /\ view.activeAssistantIndex = -1
    /\ ~view.loadingShown
    /\ view.shouldShowLoading <=> status = "submitted"

\* a submitted session whose only turn is hidden: the predicate is true and
\* nothing is rendered
C15_Witness ==
  /\ Len(messages) > 0
  /\ Visible(messages) = <<>>
  /\ status = "submitted"
  /\ view.shouldShowLoading
  /\ ~view.loadingShown

\* the greatest visible 0-based index that holds an assistant turn, -1 if none
GreatestAssistant ==
  LET v == Visible(messages)
      at == {i \in 0..(Len(v) - 1) : v[i + 1].role = "assistant"}
  IN IF at = {} THEN -1 ELSE CHOOSE i \in at : \A j \in at : j <= i
\* the last visible turn is an assistant turn with at most one part
Skeleton == LastVisibleIs("assistant") /\ Len(LastVisibleParts) <= 1

\* C16 (as stated): for an assistant turn at visible index i, reduceHeight is,
\* while streaming, false exactly when i = activeAssistantIndex and the skeleton
\* condition holds; true when submitted; i # lastAssistantIndex otherwise; and
\* false for user turns.
C16_FullHeightInSkeletonPhase ==
  \A i \in 0..(Len(Visible(messages)) - 1) :
    view.shouldReduceHeight[i + 1] =
      IF Visible(messages)[i + 1].role # "assistant" THEN FALSE
      ELSE IF status = "streaming"
      THEN ~(i = view.activeAssistantIndex /\ Skeleton)
      ELSE IF status = "submitted" THEN TRUE
      ELSE i # view.lastAssistantIndex

\* C16 (corrected): while streaming, reduceHeight of an assistant turn is false
\* exactly when i = activeAssistantIndex and the skeleton condition does not hold
\* (the active turn has two parts or more); the active turn in its skeleton
\* phase has reduceHeight true. Submitted: true; otherwise i # lastAssistantIndex;
\* user turns: false.
C16_FullHeightAfterSkeletonPhase ==
  \A i \in 0..(Len(Visible(messages)) - 1) :
    view.shouldReduceHeight[i + 1] =
      IF Visible(messages)[i + 1].role # "assistant" THEN FALSE
      ELSE IF status = "streaming"
      THEN ~(i = view.activeAssistantIndex /\ ~Skeleton)
      ELSE IF status = "submitted" THEN TRUE
      ELSE i # view.lastAssistantIndex

\* a streaming assistant turn past its skeleton phase keeps its full height
C16_Witness ==
  /\ status = "streaming"
  /\ LastVisibleIs("assistant")
  /\ Len(LastVisibleParts) = 2
  /\ view.activeAssistantIndex = Len(Visible(messages)) - 1
  /\ ~view.shouldReduceHeight[Len(Visible(messages))]

\* C17: hasActiveToolInvocations is true iff status is streaming and the last
\* visible turn is an assistant turn with a part whose tag begins with 'tool-';
\* it is false whenever status is ready, submitted or error.
C17_ActiveToolsIff ==
  /\ view.hasActiveToolInvocations <=>
       /\ status = "streaming"
       /\ LastVisibleIs("assistant")
       /\ HasToolPart(LastVisibleParts)
  /\ status \in {"ready", "submitted", "error"} => ~view.hasActiveToolInvocations

\* a finished assistant turn that holds a tool part: not active
C17_Witness ==
  /\ status = "ready"
  /\ LastVisibleIs("assistant")
  /\ HasToolPart(LastVisibleParts)
  /\ ~view.hasActiveToolInvocations

\* C18: lastAssistantIndex is the greatest visible index of an assistant turn
\* (none if there is none); activeAssistantIndex is the index of the last
\* visible turn if that turn is an assistant turn and status is streaming, none
\* otherwise; an activeAssistantIndex that is not none equals lastAssistantIndex
\* and is the last visible index.
C18_AssistantIndexes ==
  /\ view.lastAssistantIndex = GreatestAssistant
  /\ view.activeAssistantIndex =
       IF status = "streaming" /\ LastVisibleIs("assistant")
       THEN Len(Visible(messages)) - 1 ELSE -1
  /\ view.activeAssistantIndex # -1 =>
       /\ view.activeAssistantIndex = view.lastAssistantIndex
       /\ view.activeAssistantIndex = Len(Visible(messages)) - 1

\* two assistant turns, the second one streaming
C18_Witness ==
  /\ status = "streaming"
  /\ Len(Visible(messages)) = 2
  /\ Visible(messages)[1].role = "assistant"
  /\ view.lastAssistantIndex = 1
  /\ view.activeAssistantIndex = 1

\* the positions of msgs that hold a user or an assistant turn
VisiblePositions(msgs) == {k \in 1..Len(msgs) : msgs[k].role \in {"user", "assistant"}}
\* the j-th smallest element of a set of positions
Nth(S, j) == CHOOSE k \in S : Cardinality({x \in S : x <= k}) = j

\* C19: memoizedMessages holds exactly the turns whose role is user or
\* assistant, each once and in their original order; other turns are left out.
C19_FilterKeepsVisibleInOrder ==
  /\ Len(view.memoizedMessages) = Cardinality(VisiblePositions(messages))
  /\ \A j \in 1..Len(view.memoizedMessages) :
       view.memoizedMessages[j] = messages[Nth(VisiblePositions(messages), j)]

\* a hidden turn was left out and the turn after it kept
C19_Witness ==
  /\ Len(messages) = 2
  /\ messages[1].role = "system"
  /\ messages[2].role = "assistant"
  /\ view.memoizedMessages = <<messages[2]>>

\* ------------------------------------------- claims on the initial scroll
\* C20: over the lifetime of a view the instant initial scroll executes at most
\* once; it executes at the mount of a view that shows a non-empty persisted
\* conversation; it executes only for non-empty initial messages; and once the
\* one-shot flag is set the flag stays set and no later step executes it again.
C20_InitialScrollOnce ==
  /\ [](/\ instantScrolls <= 1
        /\ hasInitialScrolled <=> instantScrolls = 1
        /\ (lastStep = "Mount" /\ initialNonEmpty /\ count > 0) => instantScrolls = 1)
  /\ [][/\ instantScrolls' # instantScrolls => ~hasInitialScrolled /\ initialNonEmpty'
        /\ hasInitialScrolled => hasInitialScrolled' /\ instantScrolls' = instantScrolls]_vars

\* the flag is set and a later change of the turn sequence found new initial
\* messages: still one instant scroll
C20_Witness ==
  /\ life = "mounted"
  /\ lastStep = "CountChange"
  /\ hasInitialScrolled
  /\ initialNonEmpty
  /\ count > 0
  /\ instantScrolls = 1

\* ------------------------------------------- claims on concurrent retries
\* the last user turn of the sequence invocation i captured
CapturedLastUser(i) == cap[i][FindLastUser(cap[i])]
\* invocation i has gone through all of its calls without a rejection
RanThrough(i) ==
  /\ pc[i] \in {"regenerating", "done"}
  /\ ~Has(effects[i], "deleteRejected")

\* C21: retries are not serialized. Every invocation made on a sequence with a
\* user turn, whether or not another retry is awaiting, makes its own calls: an
\* authenticated one with an id requests its own deletion, and one that is not
\* stopped by a rejected deletion replaces the sequence once and invokes
\* regenerate once.
C21_EachInvocationRunsItsOwnCalls ==
  \A i \in Invocations :
    (pc[i] # "idle" /\ FindLastUser(cap[i]) # 0) =>
      /\ (user /\ CapturedLastUser(i).id # "") =>
           /\ Count(effects[i], "deleteTrailingMessages") = 1
           /\ deletedId[i] = CapturedLastUser(i).id
      /\ RanThrough(i) =>
           /\ Count(effects[i], "setMessages") = 1
           /\ Count(effects[i], "regenerate") = 1

\* the second retry was invoked on a sequence that held a message sent while
\* the first awaited its deletion; both requested a deletion, replaced the
\* sequence and invoked regenerate
C21_Witness ==
  /\ cap[2] = Append(cap[1], [role |-> "user", id |-> "b"])
  /\ \A i \in {1, 2} :
       /\ pc[i] = "done"
       /\ Count(effects[i], "deleteTrailingMessages") = 1
       /\ Has(effects[i], "deleteResolved")
       /\ Count(effects[i], "setMessages") = 1
       /\ Count(effects[i], "regenerate") = 1

\* s is a prefix of t
IsPrefix(s, t) == Len(s) <= Len(t) /\ s = SubSeq(t, 1, Len(s))
\* the step is the one in which invocation i calls setMessages
Installs(i) == Count(effects'[i], "setMessages") > Count(effects[i], "setMessages")

\* C24: the sequence a retry installs is computed from the sequence its closure
\* captured when it was invoked: it is that sequence cut after the first turn
\* that carries the id of its last user turn, hence a prefix of it, whatever the
\* session appended while the deletion call was pending; and the session holds
\* exactly that prefix once setMessages has been called.
C24_InstallsFromInvocationTimeSequence ==
  /\ [](\A i \in Invocations :
          Has(effects[i], "setMessages") =>
            /\ installed[i] = NewMessages(cap[i], CapturedLastUser(i).id)
            /\ IsPrefix(installed[i], cap[i]))
  /\ [][\A i \in Invocations :
          Installs(i) =>
            /\ messages' = installed'[i]
            /\ IsPrefix(messages', cap'[i])]_vars

\* a message sent while the first retry awaited its deletion (the second retry
\* captured it) is gone: the first retry installed the prefix of what it captured
C24_Witness ==
  /\ cap[2] = Append(cap[1], [role |-> "user", id |-> "b"])
  /\ pc[2] = "deleting"
  /\ pc[1] = "regenerating"
  /\ Has(effects[1], "deleteResolved")
  /\ messages = installed[1]
  /\ IsPrefix(messages, cap[1])

\* --------------------------------------- claims across the derived values
\* C22: in every state shouldReserveLoaderMinHeight equals shouldShowLoading:
\* the indicator is never shown without the reserved height, and no height is
\* reserved while the indicator is hidden.
C22_ReserveEqualsLoading ==
  view.shouldReserveLoaderMinHeight = view.shouldShowLoading

\* a streaming assistant turn with its first part: indicator and reserved height
C22_Witness ==
  /\ status = "streaming"
  /\ LastVisibleIs("assistant")
  /\ Len(LastVisibleParts) = 1
  /\ view.shouldShowLoading
  /\ view.shouldReserveLoaderMinHeight

\* C23: isMissingAssistantResponse is never true together with
\* shouldShowLoading, with hasActiveToolInvocations, or with a set error.
C23_RecoveryExcludesProgress ==
  view.isMissingAssistantResponse =>
    /\ ~view.shouldShowLoading
    /\ ~view.hasActiveToolInvocations
    /\ ~error

\* a ready session that ends with a user turn: the recovery indicator alone
C23_Witness ==
  /\ LastVisibleIs("user")
  /\ view.isMissingAssistantResponse
  /\ ~view.shouldShowLoading
  /\ ~view.hasActiveToolInvocations
  /\ ~error

\* ---------------------------------------------------------- specifications
\* the retry handler
Init == RetryInit /\ ScrollIdle /\ ViewIdle
Next == RetryNext
Spec == Init /\ [][Next]_vars

\* the scroll coordinator; a due timer and a render may come in either order
ScrollSpecInit == ScrollInit /\ RetryIdle /\ ViewIdle
ScrollNext ==
  \/ \E k \in 1..Len(scrollTimers) : MainTimerFire(k)
  \/ \E k \in 1..Len(reasoningTimers) : ReasoningTimerFire(k)
  \/ \E d \in AdvanceSteps : Advance(d)
  \/ Mount
  \/ \E cnt \in 0..MaxCount, act \in BOOLEAN, im \in ImInputs : CountChange(cnt, act, im)
  \/ \E act \in BOOLEAN, im \in ImInputs : ContentChange(act, im)
  \/ \E st \in Statuses, im \in ImInputs : StatusChange(st, im)
  \/ \E im \in ImInputs : OtherRender(im)
  \/ Unmount
ScrollSpec == ScrollSpecInit /\ [][ScrollNext]_vars

\* the scroll coordinator with timers that run at their deadline, before
\* anything else happens
StrictNext ==
  \/ \E k \in 1..Len(scrollTimers) : MainTimerFire(k)
  \/ \E k \in 1..Len(reasoningTimers) : ReasoningTimerFire(k)
  \/ \E d \in AdvanceSteps : Advance(d)
  \/ NoTimerDue /\ Mount
  \/ NoTimerDue /\ \E cnt \in 0..MaxCount, act \in BOOLEAN, im \in ImInputs :
                      CountChange(cnt, act, im)
  \/ NoTimerDue /\ \E act \in BOOLEAN, im \in ImInputs : ContentChange(act, im)
  \/ NoTimerDue /\ \E st \in Statuses, im \in ImInputs : StatusChange(st, im)
  \/ NoTimerDue /\ \E im \in ImInputs : OtherRender(im)
  \/ NoTimerDue /\ Unmount
StrictScrollSpec == ScrollSpecInit /\ [][StrictNext]_vars

\* the scroll coordinator under an event loop that runs due timers and lets
\* time pass
FairScrollSpec ==
  /\ ScrollSpec
  /\ WF_vars(\E k \in 1..Len(scrollTimers) : MainTimerFire(k))
  /\ WF_vars(\E k \in 1..Len(reasoningTimers) : ReasoningTimerFire(k))
  /\ WF_vars(\E d \in AdvanceSteps : Advance(d))

\* the retry handler of an authenticated caller, racing with the messages the
\* user sends while a deletion is pending
RaceInit == Init /\ user /\ suggestedQuestions = <<>>
RaceNext ==
  \/ \E i \in Invocations : handleRetry(i)
  \/ \E i \in Invocations : DeleteResolved(i)
  \/ \E i \in Invocations : DeleteRejected(i)
  \/ \E i \in Invocations : RegenerateResolved(i)
  \/ \E i \in Invocations : RegenerateRejected(i)
  \/ \E t \in AppendedTurns : SessionAppend(t)
  \/ \E t \in SentTurns : UserSends(t)
RaceSpec == RaceInit /\ [][RaceNext]_vars

\* the derived view state: the session changes the props, the component renders
ViewNext ==
  \/ \E r \in AllRoles : TurnAppended(r)
  \/ \E p \in PartKinds : PartAppended(p)
  \/ \E st \in Statuses : StatusSet(st)
  \/ \E err \in BOOLEAN : ErrorSet(err)
ViewSpec == ViewInit /\ [][ViewNext]_vars

====
